---- MODULE Spec2Model ----
(***************************************************************************)
(* raptor-state: State() cells and computed() derived values               *)
(* (src/src/state.ts, src/src/computed.ts) over the effector kernel.       *)
(*                                                                         *)
(* A cell is one effector store plus three events (set, update, reset).    *)
(* Every public call is one kernel launch: the launch runs the queue to    *)
(* exhaustion before the call returns, so each action below is one whole   *)
(* call made from caller code.                                             *)
(***************************************************************************)
EXTENDS Integers, Sequences, FiniteSets, TLC

(* ------------------------------ values -------------------------------- *)

\* StateValue<T> = T | null | undefined; T is modelled by 0..MaxVal.
Null == -1
Undef == -2
MaxVal == 1
MaxOps == 3

Nums == 0 .. MaxVal
\* What a store can hold.
Stored == Nums \cup {Null}
StateValue == Stored \cup {Undef}

Cells == {"c1", "c2"}
\* computed([c1.$state, c2.$state], fn): the dependencies in array order.
Deps == <<"c1", "c2">>
Derived == "D"
Targets == Cells \cup {Derived}
Subs == {"s1", "s2"}

\* Updater functions handed to update(): (prev || 0) + 1, prev => prev,
\* () => null, and a function that returns nothing.
Updaters == {"inc", "same", "clear", "void"}

\* Combining functions handed to computed().
Fns == {"sum", "first", "optional"}

\* Subscriber callbacks: "plain" records the value; "bump" records it and,
\* when it is a number below MaxVal, calls cell.set(value + 1) from inside
\* the callback (a re-entrant call).
Kinds == {"plain", "bump"}

VARIABLES
    initialValue,   \* [Cells -> StateValue]: the argument given to State()
    defaultState,   \* [Cells -> Stored]: what createStore received
    state,          \* [Cells -> Stored]: $state.getState()
    fnName,         \* the fn given to computed()
    raw,            \* combine's per-source shape, written on each source update
    combined,       \* state of the combine([c1, c2]) store that sample reads
    computedState,  \* $computed.getState()
    watchers,       \* [Targets -> Seq(Subs)]: watch nodes in creation order
    sub,            \* [Subs -> record]: what each callback is and where it is
    log,            \* [Subs -> Seq]: the values each callback was invoked with
    installed,      \* [Subs -> Seq]: values installed by calls since subscribing
    last,           \* the call just made: arguments, result and kernel trace
    nops,           \* number of calls made
    initialData,    \* asyncState's initialData parameter, once defaulted
    handle,         \* [data, loading, error]: the values of the handle's cells
    fx,             \* [inFlight, pending]: the effect's two stores
    invocations,    \* Seq(record): the execute calls made, in call order
    useUnit,        \* globalThis.useUnit: "none" or the adapter registered
    snapshot,       \* what useAsyncState returned last, <<>> before any call
    debounced,      \* debouncedState: its two cells, its timer, what was written
    validated,      \* validatedState: its three cells
    items           \* collection: the value of its cell, Null or a sequence

vars == <<initialValue, defaultState, state, fnName, raw, combined,
          computedState, watchers, sub, log, installed, last, nops,
          initialData, handle, fx, invocations, useUnit, snapshot,
          debounced, validated, items>>

\* The variables of the async handle.
handleVars == <<initialData, handle, fx, invocations>>

\* The variables of the framework bridge.
bridgeVars == <<useUnit, snapshot>>

\* The variables of the states built on State in main.ts.
advancedVars == <<debounced, validated, items>>


(* --------------------------- caller functions ------------------------- *)

\* The updater passed to update(), applied to the previous value.
ApplyUpdater(u, prev) ==
    CASE u = "inc"   -> (IF prev \in Nums THEN prev ELSE 0) + 1
      [] u = "same"  -> prev
      [] u = "clear" -> Null
      [] u = "void"  -> Undef

\* The fn passed to computed(), applied to the source values in array order.
\*   sum:      (a, b) => (a ?? 0) + (b ?? 0)
\*   first:    (a, b) => a
\*   optional: (a, b) => a === null ? undefined : b
ApplyFn(f, a, b) ==
    CASE f = "sum"      -> (IF a \in Nums THEN a ELSE 0) + (IF b \in Nums THEN b ELSE 0)
      [] f = "first"    -> a
      [] f = "optional" -> IF a = Null THEN Undef ELSE b

(* ------------------------------ State() -------------------------------- *)

\* Faulty variant of DefaultParam: no default, the argument goes to
\* createStore as it is.
DefaultParamMissing(arg) == arg

\* State(initialValue = null): an omitted or undefined argument takes the
\* default, so createStore never receives undefined.
DefaultParam(arg) == IF arg = Undef THEN Null ELSE arg

\* Faulty variant of Reduce: reset clears to null instead of restoring the
\* store's default state.
ReduceResetClears(op, prev, arg, fn, dflt) ==
    CASE op = "set"    -> arg
      [] op = "update" -> ApplyUpdater(fn, prev)
      [] op = "reset"  -> Null
      [] op = "clear"  -> dflt

\* $state.on(set, (_, payload) => payload)
\*       .on(update, (state, updater) => updater(state))
\*       .reset(reset)
\* and, in main.ts, .reset(clear)
Reduce(op, prev, arg, fn, dflt) ==
    CASE op = "set"    -> arg
      [] op = "update" -> ApplyUpdater(fn, prev)
      [] op = "reset"  -> dflt
      [] op = "clear"  -> dflt

\* Faulty variant of UpdateFilter: only undefined is skipped, an identical
\* value is written and announced again.
UpdateFilterNoEquality(upd, cur) == upd # Undef

\* Faulty variant of UpdateFilter: undefined is a state like any other.
UpdateFilterAcceptsUndefined(upd, cur) == upd # cur

\* The store node's update filter: an undefined result is skipped, and so is
\* a result identical (===) to the current state.
UpdateFilter(upd, cur) == upd # Undef /\ upd # cur

\* An event call returns its payload.
EventResult(payload) == payload

(* ------------------------------ kernel --------------------------------- *)

\* Queue items and trace events, in one record shape each.
Item(kind, cell, op, arg, fn, s, call) ==
    [kind |-> kind, cell |-> cell, op |-> op, arg |-> arg, fn |-> fn,
     sub |-> s, call |-> call]

Event(e, call, cell, v, prev, s, pending) ==
    [e |-> e, call |-> call, cell |-> cell, v |-> v, prev |-> prev,
     sub |-> s, pending |-> pending]

Pending(k) == Len(k.pure) + Len(k.barrier) + Len(k.sampler) + Len(k.effect)

\* launch() called while the kernel loop is already running (from a watcher).
Nested(k) == k.stack # <<>>

\* Faulty variant of EventCall (a deferred launch): a call made from inside a
\* watcher is only queued and returns at once, leaving its work to the loop
\* already running.
EventCallDeferred(k, cell, op, arg, fn) ==
    LET id == k.ncalls + 1
        k1 == [k EXCEPT !.ncalls = id,
                        !.pure = Append(@, Item("event", cell, op, arg, fn, "", id)),
                        !.trace = Append(@, Event("call", id, cell, arg, Null, "", Pending(k)))]
    IN  IF Nested(k)
        THEN [k1 EXCEPT !.trace = Append(@, Event("return", id, cell, k1.state[cell],
                                                  Null, "", Pending(k1)))]
        ELSE [k1 EXCEPT !.stack = <<[call |-> id, cell |-> cell]>> \o @]

\* set(payload) / update(fn) / reset(): the event is pushed on the pure queue
\* and the kernel loop runs (nested, when called from a watcher) until the
\* whole queue is empty; only then does the call return.  The call is put on
\* the stack of calls waiting for that.
EventCall(k, cell, op, arg, fn) ==
    LET id == k.ncalls + 1
    IN  [k EXCEPT !.ncalls = id,
                  !.pure = Append(@, Item("event", cell, op, arg, fn, "", id)),
                  !.trace = Append(@, Event("call", id, cell, arg, Null, "", Pending(k))),
                  !.stack = <<[call |-> id, cell |-> cell]>> \o @]

\* Watch nodes of a target, as effect-priority items carrying the new value.
WatchItems(k, target, v, call) ==
    [i \in 1 .. Len(k.watchers[target]) |->
        Item("watch", target, "", v, "", k.watchers[target][i], call)]

DepIndex(cell) == CHOOSE i \in 1 .. Len(Deps) : Deps[i] = cell

\* Event node -> reducer -> store node.  When the filter passes the store is
\* written, combine's shape takes the value and waits at its barrier (one
\* pending barrier item at most), and the store's watchers are queued.
\* The clear event (main.ts) has a watcher of its own, created after the
\* store's reducer: it is queued when the event node is processed, ahead of
\* the store's watchers.
ProcessEvent(k, it) ==
    LET prev == k.state[it.cell]
        upd  == Reduce(it.op, prev, it.arg, it.fn, k.defaultState[it.cell])
        k0   == IF it.op = "clear"
                THEN [k EXCEPT !.effect = Append(@, Item("onclear", it.cell, "", Null,
                                                         "", "", it.call))]
                ELSE k
        k1   == [k0 EXCEPT !.trace = Append(@, Event("reduce", it.call, it.cell, upd,
                                                      prev, "", 0))]
    IN  IF UpdateFilter(upd, prev)
        THEN [k1 EXCEPT !.state[it.cell] = upd,
                        !.raw[DepIndex(it.cell)] = upd,
                        !.trace = Append(@, Event("write", it.call, it.cell, upd,
                                                  prev, "", 0)),
                        !.barrier = IF @ = <<>>
                                    THEN <<Item("combine", Derived, "", Null, "", "", it.call)>>
                                    ELSE @,
                        !.effect = @ \o WatchItems(k, it.cell, upd, it.call)]
        ELSE k1

\* Faulty variant of ProcessCombine: the combined store keeps the array it
\* had, so sample reads the sources as they were before the update.
ProcessCombineStale(k, it) ==
    [k EXCEPT !.sampler = IF @ = <<>>
                          THEN <<Item("sample", Derived, "", Null, "", "", it.call)>>
                          ELSE @]

\* combine([c1, c2]) after its barrier: a fresh array, so the combined store
\* always updates; the sample node waits at sampler priority.
ProcessCombine(k, it) ==
    [k EXCEPT !.combined = k.raw,
              !.sampler = IF @ = <<>>
                          THEN <<Item("sample", Derived, "", Null, "", "", it.call)>>
                          ELSE @]

\* Faulty variant of ProcessSample: $computed takes and announces every
\* defined result, an identical one as well.
ProcessSampleUnfiltered(k, it) ==
    LET prev == k.computedState
        upd  == ApplyFn(k.fnName, k.combined[1], k.combined[2])
        k1   == [k EXCEPT !.trace = Append(@, Event("reduce", it.call, Derived, upd,
                                                     prev, "", 0))]
    IN  IF upd # Undef
        THEN [k1 EXCEPT !.computedState = upd,
                        !.trace = Append(@, Event("write", it.call, Derived, upd,
                                                  prev, "", 0)),
                        !.effect = @ \o WatchItems(k, Derived, upd, it.call)]
        ELSE k1

\* sample({source, fn}): fn over the combined source state; the result goes
\* through $computed's own update filter.
ProcessSample(k, it) ==
    LET prev == k.computedState
        upd  == ApplyFn(k.fnName, k.combined[1], k.combined[2])
        k1   == [k EXCEPT !.trace = Append(@, Event("reduce", it.call, Derived, upd,
                                                     prev, "", 0))]
    IN  IF UpdateFilter(upd, prev)
        THEN [k1 EXCEPT !.computedState = upd,
                        !.trace = Append(@, Event("write", it.call, Derived, upd,
                                                  prev, "", 0)),
                        !.effect = @ \o WatchItems(k, Derived, upd, it.call)]
        ELSE k1

\* What a callback finds when it is called: the derived value, and fn of the
\* sources' values at that moment.
InCallback(k, s, call) ==
    Event("read", call, Derived, k.computedState,
          ApplyFn(k.fnName, k.state[Deps[1]], k.state[Deps[2]]), s, 0)

\* The callback of a subscriber, given a value: it records the value; a
\* "bump" callback then calls set(value + 1) on its cell.
Callback(k, s, v, call) ==
    LET k1 == [k EXCEPT !.log[s] = Append(@, v),
                        !.trace = Append(Append(@, Event("notify", call,
                                                         k.sub[s].target, v, Null, s, 0)),
                                         InCallback(k, s, call))]
    IN  IF k.sub[s].kind = "bump" /\ v \in Nums /\ v < MaxVal
        THEN EventCall(k1, k.sub[s].cell, "set", v + 1, "")
        ELSE k1

\* Faulty variant of OnClear: the clear event has no watcher.
OnClearMissing(k, cell) == k

\* clear.watch(() => set(null))
OnClear(k, cell) == EventCall(k, cell, "set", Null, "")

\* An effect-priority item: a subscriber's callback, or the watcher of clear.
RunEffect(k, it) ==
    IF it.kind = "onclear" THEN OnClear(k, it.cell)
    ELSE Callback(k, it.sub, it.arg, it.call)

\* Faulty variant of Step: the effect queue is served newest first.
StepNewestFirst(k) ==
    IF k.pure # <<>>
    THEN ProcessEvent([k EXCEPT !.pure = Tail(@)], Head(k.pure))
    ELSE IF k.barrier # <<>>
    THEN ProcessCombine([k EXCEPT !.barrier = Tail(@)], Head(k.barrier))
    ELSE IF k.sampler # <<>>
    THEN ProcessSample([k EXCEPT !.sampler = Tail(@)], Head(k.sampler))
    ELSE LET it == k.effect[Len(k.effect)]
         IN  RunEffect([k EXCEPT !.effect = SubSeq(@, 1, Len(@) - 1)], it)

\* deleteMin: pure before barrier before sampler before effect, first in
\* first out within a priority.
Step(k) ==
    IF k.pure # <<>>
    THEN ProcessEvent([k EXCEPT !.pure = Tail(@)], Head(k.pure))
    ELSE IF k.barrier # <<>>
    THEN ProcessCombine([k EXCEPT !.barrier = Tail(@)], Head(k.barrier))
    ELSE IF k.sampler # <<>>
    THEN ProcessSample([k EXCEPT !.sampler = Tail(@)], Head(k.sampler))
    ELSE LET it == Head(k.effect)
         IN  RunEffect([k EXCEPT !.effect = Tail(@)], it)

\* The queue is empty: every call waiting on the stack returns, innermost
\* first.
Returns(k) ==
    [k EXCEPT !.trace = @ \o [i \in 1 .. Len(k.stack) |->
                                 Event("return", k.stack[i].call, k.stack[i].cell,
                                       k.state[k.stack[i].cell], Null, "", Pending(k))],
              !.stack = <<>>]

RECURSIVE Run(_)
Run(k) == IF Pending(k) = 0 THEN Returns(k) ELSE Run(Step(k))


(* ------------------------------ actions -------------------------------- *)

NoSub == [status |-> "none", target |-> "", kind |-> "", cell |-> ""]

\* The kernel at rest, in caller code.
Kernel ==
    [state |-> state, defaultState |-> defaultState, raw |-> raw,
     combined |-> combined, computedState |-> computedState, fnName |-> fnName,
     watchers |-> watchers, sub |-> sub, log |-> log,
     pure |-> <<>>, barrier |-> <<>>, sampler |-> <<>>, effect |-> <<>>,
     trace |-> <<>>, stack |-> <<>>, ncalls |-> 0]

\* target.value: $state.getState() / $computed.getState()
Value(k, target) == IF target = Derived THEN k.computedState ELSE k.state[target]

\* The values of the trace events of one kind on one target, in order.
TraceValues(trace, e, target) ==
    LET Hit(ev) == ev.e = e /\ ev.cell = target
        hits == SelectSeq(trace, Hit)
    IN  [i \in 1 .. Len(hits) |-> hits[i].v]

LastCall(op, target, s, arg, fn, ret, pre, trace) ==
    [op |-> op, target |-> target, sub |-> s, arg |-> arg, fn |-> fn,
     ret |-> ret, pre |-> pre, trace |-> trace]

\* The state a finished call leaves behind.
Commit(k, call) ==
    /\ state' = k.state
    /\ raw' = k.raw
    /\ combined' = k.combined
    /\ computedState' = k.computedState
    /\ watchers' = k.watchers
    /\ sub' = k.sub
    /\ log' = k.log
    /\ installed' = [s \in Subs |->
          IF k.sub[s].status = "active"
          THEN installed[s] \o TraceValues(k.trace, "reduce", k.sub[s].target)
          ELSE installed[s]]
    /\ last' = call
    /\ nops' = nops + 1
    /\ UNCHANGED <<initialValue, defaultState, fnName>>
    /\ UNCHANGED handleVars
    /\ UNCHANGED bridgeVars
    /\ UNCHANGED advancedVars

\* cell.set(v)
Set(c, v) ==
    /\ nops < MaxOps
    /\ LET k == Run(EventCall(Kernel, c, "set", v, ""))
       IN  Commit(k, LastCall("set", c, "", v, "", EventResult(v), state[c], k.trace))

\* cell.update(fn)
Update(c, u) ==
    /\ nops < MaxOps
    /\ ApplyUpdater(u, state[c]) \in StateValue
    /\ LET k == Run(EventCall(Kernel, c, "update", Null, u))
       IN  Commit(k, LastCall("update", c, "", Null, u, Null, state[c], k.trace))

\* cell.reset()
Reset(c) ==
    /\ nops < MaxOps
    /\ LET k == Run(EventCall(Kernel, c, "reset", Null, ""))
       IN  Commit(k, LastCall("reset", c, "", Null, "", Null, state[c], k.trace))

\* cell.clear() of the main.ts State
Clear(c) ==
    /\ nops < MaxOps
    /\ LET k == Run(EventCall(Kernel, c, "clear", Null, ""))
       IN  Commit(k, LastCall("clear", c, "", Null, "", Null, state[c], k.trace))

\* Faulty variant of Present: a truthiness test, which 0 fails as well.
Truthy(current) == current # Null /\ current # Undef /\ current # 0

\* current !== null && current !== undefined
Present(current) == current # Null /\ current # Undef

\* An accessor of the main.ts State: it reads the store and writes nothing.
Accessor(op, c, arg, how, ret) ==
    /\ nops < MaxOps
    /\ last' = LastCall(op, c, "", arg, how, ret, state[c], <<>>)
    /\ nops' = nops + 1
    /\ UNCHANGED <<initialValue, defaultState, state, fnName, raw, combined,
                   computedState, watchers, sub, log, installed>>
    /\ UNCHANGED handleVars
    /\ UNCHANGED bridgeVars
    /\ UNCHANGED advancedVars

\* cell.hasValue()
HasValue(c) == Accessor("hasValue", c, Null, "returned", Present(state[c]))

\* cell.getValue(): the current value, or the Error thrown.
GetValue(c) ==
    IF Present(state[c])
    THEN Accessor("getValue", c, Null, "returned", state[c])
    ELSE Accessor("getValue", c, Null, "threw", Null)

\* cell.getValueOr(defaultValue)
GetValueOr(c, d) ==
    Accessor("getValueOr", c, d, "returned", IF Present(state[c]) THEN state[c] ELSE d)

\* The watch node created, without the first call of fn (what event.watch
\* does, and store.watch does not).
WatchNoInitialCall(k, s, target, kind, cell) ==
    [k EXCEPT !.watchers[target] = Append(@, s),
              !.sub[s] = [status |-> "active", target |-> target,
                          kind |-> kind, cell |-> cell]]

\* store.watch(fn): the watch node is created, then fn is called once with
\* the store's current state.
Watch(k, s, target, kind, cell) ==
    LET k1 == [k EXCEPT !.watchers[target] = Append(@, s),
                        !.sub[s] = [status |-> "active", target |-> target,
                                    kind |-> kind, cell |-> cell]]
    IN  Callback(k1, s, Value(k1, target), 0)

\* target.subscribe(fn)
Subscribe(s, target, kind, cell) ==
    /\ nops < MaxOps
    /\ sub[s].status = "none"
    /\ kind = "bump" => target \in Cells /\ cell \in Cells
    /\ kind = "plain" => cell = ""
    /\ LET k == Run(Watch(Kernel, s, target, kind, cell))
       IN  Commit(k, LastCall("subscribe", target, s, Null, "", Null,
                              Value(Kernel, target), k.trace))

\* Faulty variant of Unwatch: the node stays in the list.
UnwatchKeeps(ws, s) == ws

\* The watch node removed from its store's node list.
Unwatch(ws, s) == SelectSeq(ws, LAMBDA x : x # s)

\* The function subscribe returned, called (a first or a later time); the
\* record of the call keeps the status the subscriber had before it.
Unsubscribe(s) ==
    /\ nops < MaxOps
    /\ sub[s].status \in {"active", "unsubscribed"}
    /\ watchers' = [watchers EXCEPT ![sub[s].target] = Unwatch(@, s)]
    /\ sub' = [sub EXCEPT ![s].status = "unsubscribed"]
    /\ last' = LastCall("unsubscribe", sub[s].target, s, Null, sub[s].status, Null,
                        Value(Kernel, sub[s].target), <<>>)
    /\ nops' = nops + 1
    /\ UNCHANGED <<initialValue, defaultState, state, fnName, raw, combined,
                   computedState, log, installed>>
    /\ UNCHANGED handleVars
    /\ UNCHANGED bridgeVars
    /\ UNCHANGED advancedVars

\* What State(...) and computed([c1.$state, c2.$state], fn) leave behind once
\* constructed from the given arguments; no call made yet.
Constructed(args, f) ==
    /\ initialValue = args
    /\ defaultState = [c \in Cells |-> DefaultParam(args[c])]
    /\ state = defaultState
    /\ fnName = f
    /\ raw = <<state[Deps[1]], state[Deps[2]]>>
    /\ combined = raw
    /\ computedState = ApplyFn(f, combined[1], combined[2])
    /\ watchers = [t \in Targets |-> <<>>]
    /\ sub = [s \in Subs |-> NoSub]
    /\ log = [s \in Subs |-> <<>>]
    /\ installed = [s \in Subs |-> <<>>]
    /\ last = LastCall("create", "", "", Null, "", Null, Null, <<>>)
    /\ nops = 0

(* ---------------------------- async handle ---------------------------- *)

MaxCalls == 2

\* new Error("boom"): the one Error object a handler rejects with.
Boom == 7

\* What a handler's promise can reject with: an Error, or any thrown value.
Reasons == {Boom, Null, Undef}

Outcomes == {"done", "fail"}

\* The variables of the cells and the derived value.
cellVars == <<initialValue, defaultState, state, fnName, raw, combined,
              computedState, watchers, sub, log, installed>>

\* cell.set(v) on a cell of the handle: the set reducer, then the store's
\* update filter.
CellSet(cur, v) ==
    LET upd == Reduce("set", cur, v, "", Null)
    IN  IF UpdateFilter(upd, cur) THEN upd ELSE cur

\* The same on the boolean cell loading, which is only ever given booleans.
FlagSet(cur, v) == IF v # cur THEN v ELSE cur

\* fx.inFlight: one more on each call of the effect, one less on each
\* settlement.
OnEffect(n) == n + 1

\* Faulty variant of OnFinally: a settlement ends the pending state, however
\* many invocations are still in flight.
OnFinallyClears(n) == 0

OnFinally(n) == n - 1

\* Faulty variant of PendingOf: pending while exactly one call is in flight.
PendingOfOne(n) == n = 1

\* fx.pending, derived from fx.inFlight.
PendingOf(n) == n > 0

\* Faulty variant of OnPending: the watcher only ever raises loading.
OnPendingRises(h, was, is) ==
    IF is /\ ~was THEN [h EXCEPT !.loading = FlagSet(@, TRUE)] ELSE h

\* fx.pending.watch: the callback runs when the pending store is updated,
\* that is when its value changes.
OnPending(h, was, is) ==
    IF is # was THEN [h EXCEPT !.loading = FlagSet(@, is)] ELSE h

\* Faulty variant of OnDoneData: the error of an earlier failure is kept.
OnDoneDataKeepsError(h, result) == [h EXCEPT !.data = CellSet(@, result)]

\* fx.doneData.watch
OnDoneData(h, result) ==
    [h EXCEPT !.data = CellSet(@, result), !.error = CellSet(@, Null)]

\* Faulty variant of OnFailData: a failure clears the data.
OnFailDataClears(h, err) ==
    [h EXCEPT !.data = CellSet(@, Null), !.error = CellSet(@, err)]

\* fx.failData.watch
OnFailData(h, err) == [h EXCEPT !.error = CellSet(@, err)]

IsLoading(h) == h.loading = TRUE

HasError(h) == h.error # Null

HasData(h) == h.data # Null /\ h.data # Undef

\* Faulty variant of ResetHandle: loading is left to the effect.
ResetHandleKeepsLoading(h, init) ==
    [data |-> CellSet(h.data, init), loading |-> h.loading,
     error |-> CellSet(h.error, Null)]

\* The three sets of reset().
ResetHandle(h, init) ==
    [data |-> CellSet(h.data, init), loading |-> FlagSet(h.loading, FALSE),
     error |-> CellSet(h.error, Null)]

\* An execute call: how it settled, with what, and what became of the
\* promise it returned; fell says whether its settlement took loading from
\* true to false, with which invocations were in flight when it was called,
\* and wasReset whether reset() was called while it was in flight.
Invocation(outcome, v, promise, fell, with, wasReset) ==
    [outcome |-> outcome, v |-> v, promise |-> promise, fell |-> fell,
     with |-> with, wasReset |-> wasReset]

\* The promise of a settled effect call.
Sidechain(outcome, v) ==
    IF outcome = "done" THEN [status |-> "fulfilled", v |-> v]
    ELSE [status |-> "rejected", v |-> v]

InFlight == {i \in 1 .. Len(invocations) : invocations[i].outcome = "none"}

LastHandleCall(op, id, outcome, v) ==
    [op |-> op, id |-> id, outcome |-> outcome, v |-> v,
     pre |-> handle, others |-> InFlight \ {id}]

\* handle.execute(params): the effect is called and its handler started.
Execute ==
    /\ nops < MaxOps
    /\ Len(invocations) < MaxCalls
    /\ LET n == OnEffect(fx.inFlight)
           p == PendingOf(n)
       IN  /\ fx' = [inFlight |-> n, pending |-> p]
           /\ handle' = OnPending(handle, fx.pending, p)
    /\ invocations' = Append(invocations,
                             Invocation("none", Null, [status |-> "pending"], FALSE,
                                        InFlight, FALSE))
    /\ last' = LastHandleCall("execute", Len(invocations) + 1, "none", Null)
    /\ nops' = nops + 1
    /\ UNCHANGED <<initialData, cellVars, bridgeVars, advancedVars>>

\* The effect's settlement of invocation i and everything it runs; call is
\* the record kept of it.
SettleAs(i, outcome, v, call) ==
    /\ i \in InFlight
    /\ LET h1 == IF outcome = "done" THEN OnDoneData(handle, v)
                 ELSE OnFailData(handle, v)
           n  == OnFinally(fx.inFlight)
           p  == PendingOf(n)
           h2 == OnPending(h1, fx.pending, p)
       IN  /\ fx' = [inFlight |-> n, pending |-> p]
           /\ handle' = h2
           /\ invocations' = [invocations EXCEPT ![i] =
                 Invocation(outcome, v, Sidechain(outcome, v),
                            handle.loading /\ ~h2.loading,
                            invocations[i].with, invocations[i].wasReset)]
    /\ last' = call
    /\ UNCHANGED <<initialData, nops, cellVars, bridgeVars, advancedVars>>

\* The writes of a settlement in the order the kernel makes them, as the
\* handle's values after each.  The watcher of doneData (or failData) is
\* queued before the watcher of pending, whose store lies further down the
\* graph; its first set call runs the kernel loop until the queue is empty,
\* so the pending watcher and its loading.set are served inside that call,
\* before the watcher goes on to its second set call.
SettleOrder(h, outcome, v, was, is) ==
    IF outcome = "done"
    THEN LET a == [h EXCEPT !.data = CellSet(@, v)]
             b == OnPending(a, was, is)
             c == [b EXCEPT !.error = CellSet(@, Null)]
         IN  <<a, b, c>>
    ELSE LET a == OnFailData(h, v)
             b == OnPending(a, was, is)
         IN  <<a, b>>

\* What a subscriber of loading finds in the handle's cells when a settlement
\* calls it: nothing when loading does not change.
SeenByLoading(h, outcome, v, was, is) ==
    LET w == SettleOrder(h, outcome, v, was, is)
    IN  IF w[2].loading # w[1].loading THEN <<w[2]>> ELSE <<>>

\* The handler's promise of invocation i resolves with v (done) or rejects
\* with v (fail).
Settle(i, outcome, v) ==
    SettleAs(i, outcome, v,
             [op |-> "settle", id |-> i, outcome |-> outcome, v |-> v,
              pre |-> handle, others |-> InFlight \ {i},
              seen |-> SeenByLoading(handle, outcome, v, fx.pending,
                                     PendingOf(OnFinally(fx.inFlight)))])

\* handle.reset()
HandleReset ==
    /\ nops < MaxOps
    /\ handle' = ResetHandle(handle, initialData)
    /\ last' = LastHandleCall("reset", 0, "none", Null)
    /\ nops' = nops + 1
    /\ invocations' = [i \in 1 .. Len(invocations) |->
          IF i \in InFlight THEN [invocations[i] EXCEPT !.wasReset = TRUE]
          ELSE invocations[i]]
    /\ UNCHANGED <<initialData, fx, cellVars, bridgeVars, advancedVars>>

\* What asyncState(handler, arg) leaves behind: the effect with nothing in
\* flight, the three cells, and loading set from the first call of the
\* pending watcher.
HandleConstructed(arg) ==
    /\ initialData = DefaultParam(arg)
    /\ fx = [inFlight |-> 0, pending |-> PendingOf(0)]
    /\ handle = [data |-> DefaultParam(initialData),
                 loading |-> FlagSet(FALSE, fx.pending),
                 error |-> DefaultParam(Null)]
    /\ invocations = <<>>

(* ----------------------- asyncState of main.ts ------------------------- *)

\* fx.finally.watch(() => setLoadingFalse()), and the watcher of
\* setLoadingFalse: loading.set(false).
MainOnFinally(h) == [h EXCEPT !.loading = FlagSet(@, FALSE)]

\* fx.doneData.watch: setLoadingTrue(), whose watcher is loading.set(true),
\* then data.set(result) and error.set(null).
MainOnDoneData(h, result) ==
    [h EXCEPT !.loading = FlagSet(@, TRUE),
              !.data = CellSet(@, result),
              !.error = CellSet(@, Null)]

\* fx.failData.watch
MainOnFailData(h, err) == [h EXCEPT !.error = CellSet(@, err)]

\* handle.execute(params) of main.ts: the effect is called and its handler
\* started; no watcher of the handle is attached to the call itself.
MainExecute ==
    /\ nops < MaxOps
    /\ Len(invocations) < MaxCalls
    /\ fx' = [inFlight |-> OnEffect(fx.inFlight),
              pending |-> PendingOf(OnEffect(fx.inFlight))]
    /\ invocations' = Append(invocations,
                             Invocation("none", Null, [status |-> "pending"], FALSE,
                                        InFlight, FALSE))
    /\ last' = LastHandleCall("execute", Len(invocations) + 1, "none", Null)
    /\ nops' = nops + 1
    /\ UNCHANGED <<initialData, handle, cellVars, bridgeVars, advancedVars>>

\* The settlement of invocation i in main.ts: the watcher of finally was
\* created first and its loading.set(false) is served before the
\* loading.set(true) that the doneData watcher asks for.
MainSettle(i, outcome, v) ==
    /\ i \in InFlight
    /\ LET h1 == MainOnFinally(handle)
           h2 == IF outcome = "done" THEN MainOnDoneData(h1, v)
                 ELSE MainOnFailData(h1, v)
       IN  /\ handle' = h2
           /\ invocations' = [invocations EXCEPT ![i] =
                 Invocation(outcome, v, Sidechain(outcome, v),
                            handle.loading /\ ~h2.loading,
                            invocations[i].with, invocations[i].wasReset)]
    /\ fx' = [inFlight |-> OnFinally(fx.inFlight),
              pending |-> PendingOf(OnFinally(fx.inFlight))]
    /\ last' = LastHandleCall("settle", i, outcome, v)
    /\ UNCHANGED <<initialData, nops, cellVars, bridgeVars, advancedVars>>

(* ------------------------------ fetchState ----------------------------- *)

\* The errors of the fetch handler other than its own: fetch rejects with a
\* TypeError when the request cannot be made, response.json() with a
\* SyntaxError when the body is not JSON.
TypeErr == 8
SyntaxErr == 9

Statuses == {200, 299, 300, 404}

\* Status texts, by number: 0 is "", 1 is "OK", 2 is "Not Found".
StatusTexts == 0 .. 2

\* Response bodies: two JSON texts and one that is not JSON.
Bodies == {"1", "null", "<html>"}

Responses == [status : Statuses, statusText : StatusTexts, body : Bodies]

\* What await fetch(url, options) gives: a response, or a rejection.
FetchResults == Responses \cup {[status |-> 0, statusText |-> 0, body |-> ""]}

NetworkFailure(r) == r.status = 0

\* response.ok
Ok(r) == r.status \in 200 .. 299

\* new Error(`HTTP ${status}: ${statusText}`): the Error object, which is
\* determined by the two interpolated values.
HttpError(status, statusText) == status * 10 + statusText

\* The status and the status text an HTTP error message shows.
MessageStatus(e) == e \div 10
MessageText(e) == e % 10

IsJson(body) == body \in {"1", "0", "null"}

\* JSON.parse, on the bodies modelled.
ParseJson(body) ==
    CASE body = "1" -> 1
      [] body = "0" -> 0
      [] body = "null" -> Null

\* Faulty variant of FetchHandler: the status is not looked at.
FetchHandlerIgnoresStatus(r) ==
    IF NetworkFailure(r) THEN [outcome |-> "fail", v |-> TypeErr, parsed |-> FALSE]
    ELSE IF IsJson(r.body)
    THEN [outcome |-> "done", v |-> ParseJson(r.body), parsed |-> TRUE]
    ELSE [outcome |-> "fail", v |-> SyntaxErr, parsed |-> TRUE]

\* The handler fetchState gives to asyncState, from what fetch gave to how
\* its promise settles; parsed says whether response.json() was called.
FetchHandler(r) ==
    IF NetworkFailure(r) THEN [outcome |-> "fail", v |-> TypeErr, parsed |-> FALSE]
    ELSE IF ~Ok(r)
    THEN [outcome |-> "fail", v |-> HttpError(r.status, r.statusText),
          parsed |-> FALSE]
    ELSE IF IsJson(r.body)
    THEN [outcome |-> "done", v |-> ParseJson(r.body), parsed |-> TRUE]
    ELSE [outcome |-> "fail", v |-> SyntaxErr, parsed |-> TRUE]

\* The request of invocation i comes back with r and the handler settles.
FetchSettle(i, r) ==
    LET h == FetchHandler(r)
    IN  SettleAs(i, h.outcome, h.v,
                 [op |-> "settle", id |-> i, outcome |-> h.outcome, v |-> h.v,
                  pre |-> handle, others |-> InFlight \ {i},
                  response |-> r, parsed |-> h.parsed])

(* --------------------------- framework bridge -------------------------- *)

\* The adapters a program registers: effector-react's useUnit and another
\* hook of the same shape.
Adapters == {"useUnit", "other"}

\* An adapter applied to a store: whatever that adapter makes of the store.
ApplyAdapter(a, store, st) == [adapter |-> a, store |-> store, state |-> st]

\* Faulty variant of SetupHook: the first adapter registered stays.
SetupHookFirstWins(cur, a) == IF cur = "none" THEN a ELSE cur

\* globalThis.useUnit = useUnitHook
SetupHook(cur, a) == a

\* globalThis.useUnit ? globalThis.useUnit(store) : value
BridgeRead(store, st, value) ==
    IF useUnit # "none" THEN ApplyAdapter(useUnit, store, st) ELSE value

\* globalThis.useUnit || ((store) => store.getState()), applied to a store
UseUnitFn(store, st) ==
    IF useUnit # "none" THEN ApplyAdapter(useUnit, store, st) ELSE st

\* Faulty variant of Snapshot: the derived booleans are not the handle's.
SnapshotWithoutGetters(h) ==
    [data |-> UseUnitFn("data", h.data),
     loading |-> UseUnitFn("loading", h.loading),
     error |-> UseUnitFn("error", h.error),
     isLoading |-> FALSE, hasError |-> FALSE, hasData |-> FALSE,
     of |-> h, adapter |-> useUnit]

\* The object useAsyncState returns for a handle whose cells hold h; of and
\* adapter keep what the handle held and what was registered at the call.
Snapshot(h) ==
    [data |-> UseUnitFn("data", h.data),
     loading |-> UseUnitFn("loading", h.loading),
     error |-> UseUnitFn("error", h.error),
     isLoading |-> IsLoading(h), hasError |-> HasError(h), hasData |-> HasData(h),
     of |-> h, adapter |-> useUnit]

HookCall(op, target, ret) == [op |-> op, target |-> target, ret |-> ret]

\* Neither a hook call nor a registration touches cells, handle or effect.
BridgeFrame ==
    /\ nops < MaxOps
    /\ nops' = nops + 1
    /\ UNCHANGED <<cellVars, handleVars, advancedVars>>

SetupReactIntegration(a) ==
    /\ BridgeFrame
    /\ useUnit' = SetupHook(useUnit, a)
    /\ last' = HookCall("setupReactIntegration", "", a)
    /\ UNCHANGED snapshot

UseRaptorState(c) ==
    /\ BridgeFrame
    /\ last' = HookCall("useRaptorState", c, BridgeRead(c, state[c], state[c]))
    /\ UNCHANGED bridgeVars

UseComputed ==
    /\ BridgeFrame
    /\ last' = HookCall("useComputed", Derived,
                        BridgeRead(Derived, computedState, computedState))
    /\ UNCHANGED bridgeVars

\* useAsyncState(handle): the three reads, then the object built from them
\* and from the handle's getters as they read at that moment.
UseAsyncState ==
    /\ BridgeFrame
    /\ snapshot' = <<Snapshot(handle)>>
    /\ last' = HookCall("useAsyncState", "", Null)
    /\ UNCHANGED useUnit

\* Nothing registered, no hook called.
Unregistered == useUnit = "none" /\ snapshot = <<>>

(* ---------------------------- debouncedState --------------------------- *)

\* What debouncedState(initialValue, delay) leaves behind: the two cells, no
\* timer.  window holds the values given to debouncedSet since the timer last
\* fired, lastSet the last of all of them, and touched says whether reset,
\* clear or setImmediate was called since.
DebouncedConstructed(arg) ==
    [default |-> DefaultParam(arg), value |-> DefaultParam(arg),
     immediate |-> DefaultParam(arg), timer |-> <<>>,
     window |-> <<>>, lastSet |-> <<>>, touched |-> FALSE]

\* debouncedSet(value): immediateState.set(value), the running timer cleared
\* and a new one started with the value.
DebouncedSet(d, v) ==
    [d EXCEPT !.immediate = CellSet(@, v), !.timer = <<v>>,
              !.window = Append(@, v), !.lastSet = <<v>>, !.touched = FALSE]

\* The timer's callback: state.set(value); timeoutId = null.
Fired(d) ==
    [d EXCEPT !.value = CellSet(@, d.timer[1]), !.timer = <<>>, !.window = <<>>]

\* Calls on a debounced state, a validated state or a collection touch none
\* of the cells, handles and hooks.
AdvancedFrame ==
    /\ UNCHANGED <<cellVars, handleVars, bridgeVars>>

\* debounced.set(v)
DSet(v) ==
    /\ nops < MaxOps
    /\ debounced' = DebouncedSet(debounced, v)
    /\ last' = [op |-> "set", arg |-> v,
                fn |-> "", ret |-> v, pre |-> debounced]
    /\ nops' = nops + 1
    /\ AdvancedFrame
    /\ UNCHANGED <<validated, items>>

\* debounced.update(fn): fn applied to immediateState.value, the result given
\* to debouncedSet.
DUpdate(u) ==
    /\ nops < MaxOps
    /\ ApplyUpdater(u, debounced.immediate) \in StateValue
    /\ debounced' = DebouncedSet(debounced, ApplyUpdater(u, debounced.immediate))
    /\ last' = [op |-> "update", arg |-> ApplyUpdater(u, debounced.immediate),
                fn |-> u, ret |-> Null, pre |-> debounced]
    /\ nops' = nops + 1
    /\ AdvancedFrame
    /\ UNCHANGED <<validated, items>>

\* The delay has elapsed since the last debouncedSet.
DFire ==
    /\ debounced.timer # <<>>
    /\ debounced' = Fired(debounced)
    /\ last' = [op |-> "fire", arg |-> debounced.timer[1],
                fn |-> "", ret |-> Null, pre |-> debounced]
    /\ UNCHANGED nops
    /\ AdvancedFrame
    /\ UNCHANGED <<validated, items>>

\* debounced.reset(), debounced.clear(), debounced.setImmediate(w): the calls
\* of the inner state, which know nothing of the timer.
DDirect(op, w) ==
    /\ nops < MaxOps
    /\ debounced' = [debounced EXCEPT
          !.value = CASE op = "reset" -> debounced.default
                      [] op = "clear" -> Null
                      [] op = "setImmediate" -> CellSet(@, w),
          !.touched = TRUE]
    /\ last' = [op |-> op, arg |-> w,
                fn |-> "", ret |-> Null, pre |-> debounced]
    /\ nops' = nops + 1
    /\ AdvancedFrame
    /\ UNCHANGED <<validated, items>>

(* ---------------------------- validatedState --------------------------- *)

\* The validators a caller passes:
\*   any:      () => true
\*   isNum:    v => typeof v === "number"
\*   positive: v => { if (v === null) throw new Error("null"); return v > 0 }
Validators == {"any", "isNum", "positive"}

\* What a call of the validator does with a candidate.
Validate(vd, v) ==
    CASE vd = "any"      -> "pass"
      [] vd = "isNum"    -> IF v \in Nums THEN "pass" ELSE "fail"
      [] vd = "positive" -> IF v = Null THEN "throw"
                            ELSE IF v \in Nums /\ v > 0 THEN "pass" ELSE "fail"

\* The two messages validationError is given: "Validation failed", and the
\* message of the Error the validator threw.
ValidationFailed == 20
ValidationThrown == 21

\* validatedState(initialValue, validator): state, isValid, validationError.
ValidatedConstructed(arg, vd) ==
    [default |-> DefaultParam(arg), value |-> DefaultParam(arg),
     isValid |-> Validate(vd, DefaultParam(arg)) = "pass",
     validationError |-> Null, validator |-> vd]

\* validatedSet(value): the three branches of the try block.
ValidatedSet(s, v) ==
    CASE Validate(s.validator, v) = "pass" ->
            [s EXCEPT !.value = CellSet(@, v), !.isValid = FlagSet(@, TRUE),
                      !.validationError = CellSet(@, Null)]
      [] Validate(s.validator, v) = "fail" ->
            [s EXCEPT !.isValid = FlagSet(@, FALSE),
                      !.validationError = CellSet(@, ValidationFailed)]
      [] Validate(s.validator, v) = "throw" ->
            [s EXCEPT !.isValid = FlagSet(@, FALSE),
                      !.validationError = CellSet(@, ValidationThrown)]

\* get isValid(): isValid.value === true
IsValid(s) == s.isValid = TRUE

\* validated.set(v)
VSet(v) ==
    /\ nops < MaxOps
    /\ validated' = ValidatedSet(validated, v)
    /\ last' = [op |-> "set", arg |-> v,
                ret |-> v, pre |-> validated]
    /\ nops' = nops + 1
    /\ AdvancedFrame
    /\ UNCHANGED <<debounced, items>>

\* validated.update(fn): fn applied to state.value, the result given to
\* validatedSet.
VUpdate(u) ==
    /\ nops < MaxOps
    /\ ApplyUpdater(u, validated.value) \in StateValue
    /\ validated' = ValidatedSet(validated, ApplyUpdater(u, validated.value))
    /\ last' = [op |-> "update", arg |-> ApplyUpdater(u, validated.value),
                ret |-> Null, pre |-> validated]
    /\ nops' = nops + 1
    /\ AdvancedFrame
    /\ UNCHANGED <<debounced, items>>

\* validated.reset() and validated.clear(): the inner state's own calls, with
\* no validation.
VDirect(op) ==
    /\ nops < MaxOps
    /\ validated' = [validated EXCEPT
          !.value = IF op = "reset" THEN validated.default ELSE Null]
    /\ last' = [op |-> op, arg |-> Null,
                ret |-> Null, pre |-> validated]
    /\ nops' = nops + 1
    /\ AdvancedFrame
    /\ UNCHANGED <<debounced, items>>

(* ------------------------------ collection ----------------------------- *)

\* The value of a collection: null, written <<>>, or an array a, written <<a>>.
NoItems == <<>>

\* The items a caller pushes, undefined among them, and the indexes it passes
\* to removeAt and updateAt, out of range at both ends.
Elems == Nums \cup {Undef}
Indexes == -1 .. MaxVal + 1

\* The initialItems a caller passes: [], [0], [0, 1], ...
InitialItems == {[i \in 1 .. n |-> i - 1] : n \in 0 .. MaxVal + 1}

\* state.value || []
OrEmpty(it) == IF it = NoItems THEN <<>> ELSE it[1]

\* Every fn given to state.update below returns a new array, which is
\* neither undefined nor identical to the current value, so the store takes
\* it; <<arr>> is the cell holding the array arr.

\* push(item): prev => [...(prev || []), item]
Push(it, x) == <<Append(OrEmpty(it), x)>>

\* unshift(item): prev => [item, ...(prev || [])]
Unshift(it, x) == <<(<<x>> \o OrEmpty(it))>>

\* Faulty variant of Pop: the update is made on an empty collection too.
PopAlwaysUpdates(it) ==
    <<SubSeq(OrEmpty(it), 1, Len(OrEmpty(it)) - 1)>>

\* pop(): nothing on an empty collection, else prev => prev.slice(0, -1)
Pop(it) ==
    IF Len(OrEmpty(it)) = 0 THEN it
    ELSE <<SubSeq(OrEmpty(it), 1, Len(OrEmpty(it)) - 1)>>

\* shift(): nothing on an empty collection, else prev => prev.slice(1)
Shift(it) ==
    IF Len(OrEmpty(it)) = 0 THEN it
    ELSE <<SubSeq(OrEmpty(it), 2, Len(OrEmpty(it)))>>

\* arr.filter((_, i) => i !== index), on the elements from position k on;
\* index counts from 0.
RECURSIVE FilterIndex(_, _, _)
FilterIndex(arr, index, k) ==
    IF k > Len(arr) THEN <<>>
    ELSE (IF k - 1 # index THEN <<arr[k]>> ELSE <<>>)
         \o FilterIndex(arr, index, k + 1)

\* removeAt(index)
RemoveAt(it, index) == <<FilterIndex(OrEmpty(it), index, 1)>>

\* updateAt(index, updater): a copy, with the element at index replaced when
\* index >= 0 && index < arr.length.
UpdateAt(it, index, u) ==
    <<(IF index >= 0 /\ index < Len(OrEmpty(it))
       THEN [OrEmpty(it) EXCEPT ![index + 1] = ApplyUpdater(u, @)]
       ELSE OrEmpty(it))>>

\* get length(): (state.value || []).length
Length(it) == Len(OrEmpty(it))

\* get isEmpty(): this.length === 0
IsEmpty(it) == Length(it) = 0

\* One call of the collection, leaving next as its value and returning ret.
CollectionOp(op, arg, index, ret, next) ==
    /\ nops < MaxOps
    /\ items' = next
    /\ last' = [op |-> op, arg |-> arg, index |-> index, ret |-> ret,
                pre |-> items]
    /\ nops' = nops + 1
    /\ AdvancedFrame
    /\ UNCHANGED <<debounced, validated>>

CPush(x) == CollectionOp("push", x, -1, Undef, Push(items, x))

CUnshift(x) == CollectionOp("unshift", x, -1, Undef, Unshift(items, x))

\* pop() returns undefined on an empty collection, else the last element.
CPop ==
    CollectionOp("pop", Undef, -1,
                 IF Len(OrEmpty(items)) = 0 THEN Undef
                 ELSE OrEmpty(items)[Len(OrEmpty(items))],
                 Pop(items))

\* shift() returns undefined on an empty collection, else the first element.
CShift ==
    CollectionOp("shift", Undef, -1,
                 IF Len(OrEmpty(items)) = 0 THEN Undef ELSE OrEmpty(items)[1],
                 Shift(items))

CRemoveAt(index) ==
    CollectionOp("removeAt", Undef, index, Undef, RemoveAt(items, index))

CUpdateAt(index, u) ==
    CollectionOp("updateAt", Undef, index, Undef, UpdateAt(items, index, u))

\* clear(): the inner state's clear, which leaves null.
CClear == CollectionOp("clear", Undef, -1, Undef, NoItems)

\* None of the advanced states is in use.
Unused ==
    /\ debounced = DebouncedConstructed(Undef)
    /\ validated = ValidatedConstructed(Undef, "any")
    /\ items = NoItems

\* Subscriber slots are taken in order: s2 is used once s1 has been.
SlotFree(s) == s = "s1" \/ sub["s1"].status # "none"

(* Cells: every call on c1, set on c2, subscribers of either kind on either *)
(* cell.  The derived value is sum.                                         *)
Init ==
    \E a1 \in StateValue, a2 \in {Undef, 0} :
        /\ Constructed([c \in Cells |-> IF c = "c1" THEN a1 ELSE a2], "sum")
        /\ HandleConstructed(Undef)
        /\ Unregistered
    /\ Unused
        /\ Unused

Next ==
    \/ \E v \in StateValue : Set("c1", v)
    \/ \E v \in StateValue : Set("c2", v)
    \/ \E u \in Updaters : Update("c1", u)
    \/ Reset("c1")
    \/ \E s \in Subs, t \in Cells, kind \in Kinds, c \in Cells \cup {""} :
          SlotFree(s) /\ Subscribe(s, t, kind, c)
    \/ \E s \in Subs : Unsubscribe(s)

Spec == Init /\ [][Next]_vars

(* Derived value: any fn that is defined on the initial values (sample      *)
(* creates $computed from fn's first result), calls on both sources, plain  *)
(* subscribers on the derived value.                                        *)
InitDerived ==
    \E a1 \in StateValue, a2 \in StateValue, f \in Fns :
        /\ ApplyFn(f, DefaultParam(a1), DefaultParam(a2)) # Undef
        /\ Constructed([c \in Cells |-> IF c = "c1" THEN a1 ELSE a2], f)
        /\ HandleConstructed(Undef)
        /\ Unregistered
    /\ Unused
        /\ Unused

NextDerived ==
    \/ \E c \in Cells, v \in StateValue : Set(c, v)
    \/ \E c \in Cells : Update(c, "inc")
    \/ \E c \in Cells : Reset(c)
    \/ \E s \in Subs : SlotFree(s) /\ Subscribe(s, Derived, "plain", "")
    \/ \E s \in Subs : Unsubscribe(s)

SpecDerived == InitDerived /\ [][NextDerived]_vars

(* Async handle: any initialData, execute calls that overlap, settlements   *)
(* in any order with any result or rejection reason, resets at any time.    *)
InitAsync ==
    /\ Constructed([c \in Cells |-> Undef], "sum")
    /\ \E d \in StateValue : HandleConstructed(d)
    /\ Unregistered
    /\ Unused

NextAsync ==
    \/ Execute
    \/ \E i \in 1 .. MaxCalls, v \in StateValue : Settle(i, "done", v)
    \/ \E i \in 1 .. MaxCalls, e \in Reasons : Settle(i, "fail", e)
    \/ HandleReset

SpecAsync == InitAsync /\ [][NextAsync]_vars

\* The handler's promise of invocation i settles, one way or the other.
Settles(i) ==
    \/ \E v \in StateValue : Settle(i, "done", v)
    \/ \E e \in Reasons : Settle(i, "fail", e)

(* The same handle when every handler's promise settles in the end: an      *)
(* invocation in flight does not stay in flight for ever.  Calls of execute *)
(* and reset are finite in number.                                          *)
SpecAsyncFair ==
    /\ InitAsync
    /\ [][NextAsync]_vars
    /\ \A i \in 1 .. MaxCalls : WF_vars(Settles(i))

(* fetchState: a handle without initialData whose handler is the fetch      *)
(* handler; requests overlap and come back in any order.                    *)
InitFetch ==
    /\ Constructed([c \in Cells |-> Undef], "sum")
    /\ HandleConstructed(Undef)
    /\ Unregistered
    /\ Unused

NextFetch ==
    \/ Execute
    \/ \E i \in 1 .. MaxCalls, r \in FetchResults : FetchSettle(i, r)
    \/ HandleReset

SpecFetch == InitFetch /\ [][NextFetch]_vars

(* Framework bridge: registrations and hook calls between changes of a cell *)
(* and of a handle.                                                         *)
InitBridge ==
    /\ \E a1 \in StateValue :
          Constructed([c \in Cells |-> IF c = "c1" THEN a1 ELSE Undef], "sum")
    /\ HandleConstructed(Undef)
    /\ Unregistered
    /\ Unused

NextBridge ==
    \/ \E a \in Adapters : SetupReactIntegration(a)
    \/ UseRaptorState("c1")
    \/ UseComputed
    \/ UseAsyncState
    \/ \E v \in Stored : Set("c1", v)
    \/ Execute
    \/ \E i \in 1 .. MaxCalls : Settle(i, "done", 1)
    \/ \E i \in 1 .. MaxCalls : Settle(i, "fail", Boom)
    \/ HandleReset

SpecBridge == InitBridge /\ [][NextBridge]_vars

(* Sources and derived value together: any fn defined on the initial       *)
(* values, set on both sources, subscribers of either kind on c1.           *)
InitSync ==
    /\ \E a1 \in StateValue, f \in Fns :
          /\ ApplyFn(f, DefaultParam(a1), 0) # Undef
          /\ Constructed([c \in Cells |-> IF c = "c1" THEN a1 ELSE 0], f)
    /\ HandleConstructed(Undef)
    /\ Unregistered
    /\ Unused

NextSync ==
    \/ \E v \in StateValue : Set("c1", v)
    \/ \E v \in Nums : Set("c2", v)
    \/ \E s \in Subs, kind \in Kinds :
          SlotFree(s) /\ Subscribe(s, "c1", kind, IF kind = "bump" THEN "c1" ELSE "")

SpecSync == InitSync /\ [][NextSync]_vars

(* asyncState of main.ts: execute calls that overlap, settlements in any    *)
(* order, resets at any time.                                               *)
InitMainAsync ==
    /\ Constructed([c \in Cells |-> Undef], "sum")
    /\ \E d \in StateValue : HandleConstructed(d)
    /\ Unregistered
    /\ Unused

NextMainAsync ==
    \/ MainExecute
    \/ \E i \in 1 .. MaxCalls, v \in StateValue : MainSettle(i, "done", v)
    \/ \E i \in 1 .. MaxCalls, e \in Reasons : MainSettle(i, "fail", e)
    \/ HandleReset

SpecMainAsync == InitMainAsync /\ [][NextMainAsync]_vars

(* debouncedState: calls in and out of the delay window.                    *)
InitDebounced ==
    /\ Constructed([c \in Cells |-> Undef], "sum")
    /\ HandleConstructed(Undef)
    /\ Unregistered
    /\ \E a \in StateValue : debounced = DebouncedConstructed(a)
    /\ validated = ValidatedConstructed(Undef, "any")
    /\ items = NoItems

NextDebounced ==
    \/ \E v \in StateValue : DSet(v)
    \/ \E u \in {"inc", "void"} : DUpdate(u)
    \/ DFire
    \/ DDirect("reset", Null)
    \/ DDirect("clear", Null)
    \/ \E w \in Nums : DDirect("setImmediate", w)

SpecDebounced == InitDebounced /\ [][NextDebounced]_vars

(* validatedState: calls with candidates that pass, fail and throw.         *)
InitValidated ==
    /\ Constructed([c \in Cells |-> Undef], "sum")
    /\ HandleConstructed(Undef)
    /\ Unregistered
    /\ debounced = DebouncedConstructed(Undef)
    /\ \E a \in StateValue, vd \in Validators :
          /\ Validate(vd, DefaultParam(a)) # "throw"
          /\ validated = ValidatedConstructed(a, vd)
    /\ items = NoItems

NextValidated ==
    \/ \E v \in StateValue : VSet(v)
    \/ \E u \in Updaters : VUpdate(u)
    \/ VDirect("reset")
    \/ VDirect("clear")

SpecValidated == InitValidated /\ [][NextValidated]_vars

(* collection: the array calls on arrays and on the null left by clear().  *)
InitCollection ==
    /\ Constructed([c \in Cells |-> Undef], "sum")
    /\ HandleConstructed(Undef)
    /\ Unregistered
    /\ debounced = DebouncedConstructed(Undef)
    /\ validated = ValidatedConstructed(Undef, "any")
    /\ \E a \in InitialItems : items = <<a>>

NextCollection ==
    \/ \E x \in Elems : CPush(x)
    \/ \E x \in Elems : CUnshift(x)
    \/ CPop
    \/ CShift
    \/ \E i \in Indexes : CRemoveAt(i)
    \/ \E i \in Indexes : CUpdateAt(i, "inc")
    \/ CClear

SpecCollection == InitCollection /\ [][NextCollection]_vars

(* The State of main.ts: one cell with clear and the accessors, subscribers *)
(* of either kind on it.                                                    *)
InitMain ==
    /\ \E a1 \in StateValue :
          Constructed([c \in Cells |-> IF c = "c1" THEN a1 ELSE Undef], "sum")
    /\ HandleConstructed(Undef)
    /\ Unregistered
    /\ Unused

NextMain ==
    \/ \E v \in StateValue : Set("c1", v)
    \/ Update("c1", "inc")
    \/ Reset("c1")
    \/ Clear("c1")
    \/ HasValue("c1")
    \/ GetValue("c1")
    \/ \E d \in Nums : GetValueOr("c1", d)
    \/ \E kind \in Kinds :
          Subscribe("s1", "c1", kind, IF kind = "bump" THEN "c1" ELSE "")

SpecMain == InitMain /\ [][NextMain]_vars


(* ------------------------------ properties ----------------------------- *)

Mutators == {"set", "update", "reset"}

\* The events of one kind in the trace of the call just made.
Events(e) == SelectSeq(last.trace, LAMBDA ev : ev.e = e)

\* The call just made did not make a subscriber call back into a cell.
NoReentry == Len(Events("call")) = IF last.op \in Mutators THEN 1 ELSE 0

\* The value createStore received, said without DefaultParam.
AsConstructed(c) == IF initialValue[c] = Undef THEN Null ELSE initialValue[c]

\* C1 as stated: right after construction every cell holds the argument it
\* was constructed with, undefined included.
C1_ValueIsArgument ==
    last.op = "create" => \A c \in Cells : state[c] = initialValue[c]

\* C1, amended: right after construction a cell holds its argument when that
\* is not undefined, and null when the argument is undefined or omitted.
C1_InitialValue ==
    last.op = "create" =>
        \A c \in Cells :
            /\ initialValue[c] # Undef => state[c] = initialValue[c]
            /\ initialValue[c] = Undef => state[c] = Null

C1_Witness ==
    /\ last.op = "create"
    /\ initialValue["c1"] = Undef /\ state["c1"] = Null
    /\ initialValue["c2"] = 0 /\ state["c2"] = 0

\* C2: right after set(v) returns the cell holds v, and set returned v, for
\* every v, undefined and the current value included (said of calls during
\* which no subscriber calls back into a cell).
C2_SetReplaces ==
    (last.op = "set" /\ NoReentry) =>
        /\ state[last.target] = last.arg
        /\ last.ret = last.arg

\* C3: right after update(fn) returns the cell holds fn(p), p the value at the
\* time of the call, and fn was applied exactly once, to p (said of calls
\* during which no subscriber calls back into a cell).
C3_UpdateApplies ==
    (last.op = "update" /\ NoReentry) =>
        /\ state[last.target] = ApplyUpdater(last.fn, last.pre)
        /\ Len(Events("reduce")) >= 1
        /\ \A i \in 1 .. Len(Events("reduce")) :
              Events("reduce")[i].cell = last.target =>
                  /\ i = 1
                  /\ Events("reduce")[i].prev = last.pre

\* C4: reset() restores the value the cell was constructed with, whatever
\* calls came before, and a reset of a cell that already holds that value
\* changes nothing.  With a subscriber that calls back into the cell, the
\* value reset installs is that value.
C4_ResetRestores ==
    last.op = "reset" =>
        /\ Events("reduce")[1].v = AsConstructed(last.target)
        /\ NoReentry => state[last.target] = AsConstructed(last.target)
        /\ last.pre = AsConstructed(last.target) =>
              /\ state[last.target] = last.pre
              /\ Events("write") = <<>>

C4_Witness ==
    /\ last.op = "reset" /\ NoReentry
    /\ nops >= 2
    /\ last.pre # AsConstructed(last.target)
    /\ state[last.target] = initialValue[last.target]

\* C5: subscribe(fn) calls fn exactly once on its own account, with the
\* value the cell holds at the call, before anything else happens and before
\* subscribe returns.
C5_SubscribeCallsOnce ==
    last.op = "subscribe" =>
        /\ Len(last.trace) >= 1
        /\ last.trace[1].e = "notify"
        /\ last.trace[1].sub = last.sub
        /\ last.trace[1].v = last.pre
        /\ Len(SelectSeq(last.trace,
                LAMBDA ev : ev.e = "notify" /\ ev.sub = last.sub /\ ev.call = 0)) = 1
        /\ log[last.sub][1] = last.pre
        /\ NoReentry => log[last.sub] = <<last.pre>>

C5_Witness ==
    /\ last.op = "subscribe"
    /\ nops >= 2
    /\ last.pre = Null
    /\ last.pre # initialValue[last.target]
    /\ log[last.sub] = <<Null>>


\* How often subscriber s was called on account of one call, and with what.
Notified(s, call) ==
    SelectSeq(last.trace, LAMBDA ev : ev.e = "notify" /\ ev.sub = s /\ ev.call = call)

\* The reducer runs of the cells (not of the derived value) in the trace.
CellReduces == SelectSeq(last.trace, LAMBDA ev : ev.e = "reduce" /\ ev.cell \in Cells)

\* C6 as stated, for installed values other than undefined: every set, update
\* or reset calls each subscriber of the cell exactly once with the installed
\* value, also when the cell already holds that value.
C6_AlwaysNotifies ==
    last.op \in Mutators =>
        \A i \in 1 .. Len(CellReduces) :
            LET r == CellReduces[i]
            IN  r.v # Undef =>
                    \A j \in 1 .. Len(watchers[r.cell]) :
                        Notified(watchers[r.cell][j], r.call) =
                            <<Event("notify", r.call, r.cell, r.v, Null,
                                    watchers[r.cell][j], 0)>>

\* C6, amended: a set, update or reset that changes the cell's value calls
\* each subscriber of the cell exactly once, with the new value; one that
\* leaves the value as it is (an identical value, or undefined) calls none.
\* This holds of calls made from inside a subscriber as well.
C6_NotifiesOnChange ==
    \A i \in 1 .. Len(CellReduces) :
        LET r == CellReduces[i]
        IN  \A j \in 1 .. Len(watchers[r.cell]) :
                Notified(watchers[r.cell][j], r.call) =
                    IF r.v # Undef /\ r.v # r.prev
                    THEN <<Event("notify", r.call, r.cell, r.v, Null,
                                 watchers[r.cell][j], 0)>>
                    ELSE <<>>

C6_Witness ==
    /\ last.op = "set" /\ NoReentry
    /\ last.arg = last.pre
    /\ Len(watchers[last.target]) = 2
    /\ Events("notify") = <<>>

\* The values a sequence of installed values makes a cell take, starting
\* from cur: those that are not undefined and differ from the value before.
RECURSIVE Effective(_, _)
Effective(cur, vs) ==
    IF vs = <<>> THEN <<>>
    ELSE IF Head(vs) # Undef /\ Head(vs) # cur
         THEN <<Head(vs)>> \o Effective(Head(vs), Tail(vs))
         ELSE Effective(cur, Tail(vs))

CellSubs == {s \in Subs : sub[s].status # "none" /\ sub[s].target \in Cells}

\* C7 as stated, for sequences without undefined: a subscriber is called
\* with v1, ..., vN, once per call in call order, and the cell ends at vN.
C7_OnePerCall ==
    \A s \in CellSubs :
        (\A i \in 1 .. Len(installed[s]) : installed[s][i] # Undef) =>
            /\ Tail(log[s]) = installed[s]
            /\ (sub[s].status = "active" /\ installed[s] # <<>>) =>
                  state[sub[s].target] = installed[s][Len(installed[s])]

\* C7, amended: a subscriber is called, in call order, with exactly those of
\* v1, ..., vN that changed the cell's value (a value identical to the one
\* before it, or undefined, is passed over), and the cell ends at the last
\* of them.
C7_OnePerChange ==
    \A s \in CellSubs :
        /\ log[s] # <<>>
        /\ Tail(log[s]) = Effective(log[s][1], installed[s])
        /\ sub[s].status = "active" => state[sub[s].target] = log[s][Len(log[s])]

C7_Witness ==
    \E s \in CellSubs :
        /\ sub[s].kind = "plain"
        /\ Len(installed[s]) = 2
        /\ installed[s][1] = installed[s][2]
        /\ Len(log[s]) = 2

\* C8: once a subscriber is unsubscribed no call invokes it again, and a
\* further call of its unsubscribe function changes neither the cells, the
\* derived value, the other subscribers nor any subscriber's record of calls.
C8_Unsubscribed ==
    [][ /\ \A s \in Subs : sub[s].status = "unsubscribed" =>
              /\ log'[s] = log[s]
              /\ sub'[s] = sub[s]
        /\ (last'.op = "unsubscribe" /\ last'.fn = "unsubscribed") =>
              UNCHANGED <<state, computedState, raw, combined, watchers, sub,
                          log, installed>>
      ]_vars

C8_Witness ==
    \E s \in Subs :
        /\ sub[s].status = "unsubscribed"
        /\ last.op \in Mutators
        /\ last.target = sub[s].target
        /\ state[last.target] # last.pre
        /\ Len(log[s]) = 1

\* Some event of the given kind, call and subscriber precedes position i of
\* the trace.
Before(i, e, call, s) ==
    \E j \in 1 .. (i - 1) :
        /\ last.trace[j].e = e
        /\ last.trace[j].call = call
        /\ last.trace[j].sub = s

\* C9: when a set, update or reset returns -- also one called from inside a
\* subscriber of the same or of another cell -- nothing is left queued: the
\* reducer has run, and where it changed the value the store has been
\* written and every subscriber of the cell has been called with the value.
C9_Synchronous ==
    \A i \in 1 .. Len(last.trace) :
        LET r == last.trace[i]
        IN  r.e = "return" =>
                /\ r.pending = 0
                /\ Before(i, "call", r.call, "")
                /\ Before(i, "reduce", r.call, "")
                /\ \A j \in 1 .. (i - 1) :
                      LET q == last.trace[j]
                      IN  (q.e = "reduce" /\ q.call = r.call /\ q.cell = r.cell
                             /\ q.v # Undef /\ q.v # q.prev) =>
                              /\ \E w \in (j + 1) .. (i - 1) :
                                    /\ last.trace[w].e = "write"
                                    /\ last.trace[w].call = r.call
                                    /\ last.trace[w].cell = r.cell
                                    /\ last.trace[w].v = q.v
                              /\ \A n \in 1 .. Len(watchers[r.cell]) :
                                    Before(i, "notify", r.call, watchers[r.cell][n])

C9_Witness ==
    /\ last.op = "set"
    /\ \E i, j \in 1 .. Len(last.trace) :
          /\ last.trace[i].e = "return" /\ last.trace[i].call = 2
          /\ last.trace[i].cell # last.target
          /\ j < i
          /\ last.trace[j].e = "notify" /\ last.trace[j].call = 2

\* C10: in caller code the derived value equals fn applied to the current
\* values of its sources, in source-array order.
C10_DerivedIsFnOfSources ==
    computedState = ApplyFn(fnName, state[Deps[1]], state[Deps[2]])


(* ------------------------- derived value (C11, C12) -------------------- *)

DerivedSubs == {s \in Subs : sub[s].status # "none" /\ sub[s].target = Derived}

ActiveDerivedSubs == {s \in DerivedSubs : sub[s].status = "active"}

\* The recomputations of the derived value in the trace of the call just made.
DerivedReduces ==
    SelectSeq(last.trace, LAMBDA ev : ev.e = "reduce" /\ ev.cell = Derived)

CellWrites == SelectSeq(last.trace, LAMBDA ev : ev.e = "write" /\ ev.cell \in Cells)

\* fn over the sources as they are now.
FnNow == ApplyFn(fnName, state[Deps[1]], state[Deps[2]])

\* C11 as stated, for a mutation that changes its source and an fn result
\* other than undefined: the mutation calls each subscriber of the derived
\* value exactly once, with fn of the sources' new values.
C11_OnePerMutation ==
    (last.op \in Mutators /\ state[last.target] # last.pre /\ FnNow # Undef) =>
        \A s \in ActiveDerivedSubs :
            SelectSeq(last.trace, LAMBDA ev : ev.e = "notify" /\ ev.sub = s) =
                <<Event("notify", 1, Derived, FnNow, Null, s, 0)>>

\* C11, amended: every mutation that changes a source recomputes the derived
\* value once, from the sources' new values in array order, before the call
\* returns (two mutations are never served by one recomputation); a
\* subscriber of the derived value is called, in mutation order, with exactly
\* those recomputed values that changed the derived value, and the derived
\* value ends at the last of them.
C11_OnePerChange ==
    /\ last.op \in Mutators =>
          /\ Len(DerivedReduces) = Len(CellWrites)
          /\ \A i \in 1 .. Len(DerivedReduces) : DerivedReduces[i].v = FnNow
    /\ \A s \in DerivedSubs :
          /\ log[s] # <<>>
          /\ Tail(log[s]) = Effective(log[s][1], installed[s])
          /\ sub[s].status = "active" => computedState = log[s][Len(log[s])]

C11_Witness ==
    \E s \in ActiveDerivedSubs :
        /\ fnName = "sum"
        /\ last.op = "set" /\ last.target = "c2"
        /\ state["c1"] # defaultState["c1"]
        /\ Len(installed[s]) = 2
        /\ Len(log[s]) = 3
        /\ log[s][3] = FnNow
        /\ computedState = FnNow

\* C12 as stated, for results other than undefined: every recomputation
\* calls each subscriber of the derived value, also one whose result is
\* identical to the value the derived value already has.
C12_EveryRecomputation ==
    \A i \in 1 .. Len(DerivedReduces) :
        LET r == DerivedReduces[i]
        IN  r.v # Undef =>
                \A s \in ActiveDerivedSubs :
                    Len(SelectSeq(last.trace,
                            LAMBDA ev : ev.e = "notify" /\ ev.sub = s
                                        /\ ev.call = r.call /\ ev.v = r.v)) = 1

\* C12, amended: a recomputation calls each subscriber of the derived value
\* exactly once when its result differs from the value the derived value had
\* (and is not undefined), and calls none otherwise: derived values
\* deduplicate by identity.
C12_NotifiedOnChange ==
    \A i \in 1 .. Len(DerivedReduces) :
        LET r == DerivedReduces[i]
        IN  \A j \in 1 .. Len(watchers[Derived]) :
                Notified(watchers[Derived][j], r.call) =
                    IF r.v # Undef /\ r.v # r.prev
                    THEN <<Event("notify", r.call, Derived, r.v, Null,
                                 watchers[Derived][j], 0)>>
                    ELSE <<>>

C12_Witness ==
    /\ fnName = "sum"
    /\ last.op \in Mutators
    /\ state[last.target] # last.pre
    /\ Len(DerivedReduces) = 1
    /\ DerivedReduces[1].v = DerivedReduces[1].prev
    /\ ActiveDerivedSubs # {}
    /\ Events("notify") = <<>>


(* --------------------------- async handle (C13-C20) -------------------- *)

Absent == {Null, Undef}

Settled == {i \in 1 .. Len(invocations) : invocations[i].outcome # "none"}

\* C13: right after execute(params) has been called, and before that
\* invocation settles or reset() is called, loading.value is true and
\* isLoading is true, whatever state the handle was in.
C13_LoadingAtStart ==
    last.op = "execute" => handle.loading = TRUE /\ IsLoading(handle)

\* C14: when an invocation settles successfully with result r and no other
\* invocation is in flight, data.value is r, error.value is absent and
\* loading.value is false, for every r and every prior state.
C14_Success ==
    (last.op = "settle" /\ last.outcome = "done" /\ last.others = {}) =>
        /\ handle.data = last.v
        /\ handle.error \in Absent
        /\ handle.loading = FALSE

\* C15, said of a rejection reason other than null that settles with no
\* other invocation in flight: after the settlement error.value is the
\* reason, hasError is true, loading.value is false, and the promise execute
\* returned is rejected with the reason.
C15_Failure ==
    (last.op = "settle" /\ last.outcome = "fail" /\ last.v # Null
        /\ last.others = {}) =>
        /\ handle.error = last.v
        /\ HasError(handle)
        /\ handle.loading = FALSE
        /\ invocations[last.id].promise = [status |-> "rejected", v |-> last.v]

\* C16: a rejected invocation leaves data as it was when it settled, whatever
\* the handle's state and the reason.
C16_FailureKeepsData ==
    (last.op = "settle" /\ last.outcome = "fail") => handle.data = last.pre.data

C16_Witness ==
    /\ last.op = "settle" /\ last.outcome = "fail"
    /\ \E j \in Settled : /\ invocations[j].outcome = "done"
                          /\ invocations[j].v \in Nums
                          /\ handle.data = invocations[j].v
    /\ handle.data # initialData
    /\ handle.error = Boom

\* C17 as stated, for a settlement that finds loading true: the settlement of
\* an invocation takes loading from true to false, other invocations in
\* flight or not.
C17_FallsAtEverySettlement ==
    (last.op = "settle" /\ last.pre.loading) => invocations[last.id].fell

\* C17, amended: the settlement of an invocation, whatever its outcome,
\* leaves loading false when no other invocation is in flight and leaves
\* loading as it was when another is; so loading goes from true to false at
\* a settlement only at that of the last invocation in flight.
C17_FallsAtLastSettlement ==
    /\ last.op = "settle" =>
          /\ handle.loading = IF last.others = {} THEN FALSE ELSE last.pre.loading
          /\ invocations[last.id].fell = (last.pre.loading /\ last.others = {})
    /\ \A i \in InFlight : ~invocations[i].fell

C17_Witness ==
    /\ last.op = "settle"
    /\ last.others # {}
    /\ last.pre.loading /\ handle.loading
    /\ ~invocations[last.id].fell

\* C18: when an execute call has failed and left hasError true, and a later
\* execute call settles successfully with a result that is not absent, then
\* after that settlement hasError is false, error.value is absent and hasData
\* is true.
C18_SuccessClearsError ==
    (/\ last.op = "settle" /\ last.outcome = "done" /\ last.v \notin Absent
     /\ HasError(last.pre)
     /\ \E j \in Settled : j < last.id /\ invocations[j].outcome = "fail") =>
        /\ ~HasError(handle)
        /\ handle.error \in Absent
        /\ HasData(handle)

C18_Witness ==
    /\ last.op = "settle" /\ last.outcome = "done" /\ last.id = 2
    /\ invocations[1].outcome = "fail"
    /\ last.pre.error = Boom
    /\ handle.error = Null
    /\ handle.data = last.v /\ last.v \in Nums

\* C19: in every state of the handle, hasError is true iff error.value is
\* neither null nor undefined, hasData is true iff data.value is neither null
\* nor undefined, and isLoading is true iff loading.value is true.
C19_Getters ==
    /\ HasError(handle) <=> handle.error \notin Absent
    /\ HasData(handle) <=> handle.data \notin Absent
    /\ IsLoading(handle) <=> handle.loading = TRUE

C19_Witness ==
    /\ HasError(handle) /\ handle.error = Boom
    /\ ~HasData(handle) /\ handle.data = Null
    /\ IsLoading(handle)
    /\ \E j \in Settled : invocations[j].outcome = "fail"

\* C20: right after reset() returns, in every state and with invocations in
\* flight or not, data.value is initialData, loading.value is false and
\* error.value is absent.
C20_ResetIsUnconditional ==
    last.op = "reset" =>
        /\ handle.data = initialData
        /\ handle.loading = FALSE
        /\ handle.error \in Absent /\ ~HasError(handle)

C20_Witness ==
    /\ last.op = "reset"
    /\ InFlight # {}
    /\ fx.pending
    /\ last.pre.loading
    /\ last.pre.data # initialData


(* ---------------------- async handle races (C21, C22) ------------------ *)

\* C21: an invocation that was in flight when reset() was called still writes
\* its outcome when it settles: after a successful settlement with result r
\* data.value is r and error.value is absent, and after a rejection with
\* a reason e other than null error.value is e.
C21_NoCancellation ==
    (last.op = "settle" /\ invocations[last.id].wasReset) =>
        /\ last.outcome = "done" =>
              handle.data = last.v /\ handle.error \in Absent
        /\ (last.outcome = "fail" /\ last.v # Null) => handle.error = last.v

\* Two overlapping execute calls, both settled, and no reset() meanwhile.
BothSettled ==
    /\ Len(invocations) = 2
    /\ 1 \in invocations[2].with
    /\ InFlight = {}
    /\ \A i \in 1 .. 2 : ~invocations[i].wasReset
    /\ last.op = "settle"

\* C22: of two overlapping execute calls the one that settles last decides
\* the final state, whichever was called first: when it succeeds data.value
\* is its result and error.value is absent; when it fails error.value is its
\* reason and data.value is the result of the other call if that succeeded.
C22_LastSettledWins ==
    BothSettled =>
        LET other == 3 - last.id
        IN  /\ last.outcome = "done" =>
                  handle.data = last.v /\ handle.error \in Absent
            /\ last.outcome = "fail" =>
                  /\ handle.error = last.v
                  /\ invocations[other].outcome = "done" =>
                        handle.data = invocations[other].v


(* ------------------------------ fetchState (C23) ----------------------- *)

Read(target) == IF target = Derived THEN computedState ELSE state[target]

\* C24: useRaptorState(cell) and useComputed(derived) return what the adapter
\* registered last makes of the handle's store, and the handle's current
\* value when no adapter was ever registered.
C24_LastRegistrationWins ==
    /\ last.op \in {"useRaptorState", "useComputed"} =>
          IF useUnit = "none"
          THEN last.ret = Read(last.target)
          ELSE last.ret = ApplyAdapter(useUnit, last.target, Read(last.target))
    /\ last.op = "setupReactIntegration" => useUnit = last.ret

C24_Witness ==
    /\ last.op = "useRaptorState"
    /\ nops = 3
    /\ useUnit = "other"
    /\ last.ret = ApplyAdapter("other", "c1", state["c1"])

\* C25: with no adapter registered, what useAsyncState(handle) returned holds
\* the values the three cells had when it was called, isLoading, hasError and
\* hasData agree with them, and it stays as it is when the handle changes.
C25_Snapshot ==
    \A i \in 1 .. Len(snapshot) :
        LET sn == snapshot[i]
        IN  sn.adapter = "none" =>
                /\ sn.data = sn.of.data
                /\ sn.loading = sn.of.loading
                /\ sn.error = sn.of.error
                /\ sn.isLoading = (sn.loading = TRUE)
                /\ sn.hasError = (sn.error \notin Absent)
                /\ sn.hasData = (sn.data \notin Absent)

C25_Witness ==
    /\ snapshot # <<>>
    /\ snapshot[1].adapter = "none"
    /\ snapshot[1].isLoading /\ snapshot[1].loading = TRUE
    /\ ~handle.loading
    /\ snapshot[1].of # handle
    /\ last.op = "settle"


(* --------------------------- main.ts State (C26, C27) ------------------ *)

\* C26: getValue() throws exactly when the cell's value is null or undefined
\* and returns the value otherwise; hasValue() is true exactly when getValue()
\* would return; getValueOr(d) returns d in the throwing case and the value
\* otherwise; none of them changes the value or calls a subscriber.
C26_StrictRead ==
    /\ last.op = "getValue" =>
          /\ (last.fn = "threw") = (state[last.target] \in Absent)
          /\ last.fn = "returned" => last.ret = state[last.target]
    /\ last.op = "hasValue" => last.ret = (state[last.target] \notin Absent)
    /\ last.op = "getValueOr" =>
          last.ret = IF state[last.target] \in Absent THEN last.arg
                     ELSE state[last.target]
    /\ last.op \in {"getValue", "hasValue", "getValueOr"} =>
          /\ state[last.target] = last.pre
          /\ last.trace = <<>>

C26_Witness ==
    /\ last.op = "getValue" /\ last.fn = "threw"
    /\ state["c1"] = Null
    /\ sub["s1"].status = "active"
    /\ defaultState["c1"] = 0

\* clear() and the set(null) of its watcher are the only calls made.
ClearAlone == Len(Events("call")) = 2

\* C27: after clear() returns the value is null, whatever the initial and the
\* current value were, and hasValue() is false; a reset() after it restores
\* the value the cell was constructed with (said of calls during which no
\* subscriber calls back into the cell).
C27_ClearSetsNull ==
    /\ (last.op = "clear" /\ ClearAlone) =>
          state[last.target] = Null /\ ~Present(state[last.target])
    /\ (last.op = "reset" /\ NoReentry) =>
          state[last.target] = AsConstructed(last.target)

C27_Witness ==
    /\ last.op = "clear"
    /\ ClearAlone
    /\ defaultState["c1"] = 0
    /\ last.pre = 1
    /\ state["c1"] = Null
    /\ sub["s1"].status = "active"
    /\ log["s1"] = <<1, 0, Null>>


(* ----------------------- asyncState of main.ts (C28) ------------------- *)

\* C28: right after execute(params) of the main.ts handle has been called,
\* and before its handler settles, isLoading is true and loading.value is
\* true.
C28_MainLoadingAtStart ==
    last.op = "execute" => IsLoading(handle) /\ handle.loading = TRUE


(* ----------------------- order of the writes (C29) --------------------- *)

\* C29, for a result other than undefined: when a successful settlement calls
\* a subscriber of loading with false, data.value is already the resolved
\* value and error.value is already absent.
C29_DataErrorThenLoading ==
    (last.op = "settle" /\ last.outcome = "done" /\ last.v # Undef) =>
        \A j \in 1 .. Len(last.seen) :
            last.seen[j].loading = FALSE =>
                /\ last.seen[j].data = last.v
                /\ last.seen[j].error \in Absent


(* ------------------ derived value inside callbacks (C30) --------------- *)

\* C30: whenever a subscriber of a source is called, the derived value
\* already is fn of the sources' values at that moment, and so it is right
\* after a mutating call has returned.
C30_DerivedInStep ==
    /\ \A i \in 1 .. Len(Events("read")) :
          Events("read")[i].v = Events("read")[i].prev
    /\ last.op \in Mutators => computedState = FnNow


(* ------------------- loading and invocations in flight (C31, C32) ------ *)

\* C31: in the main.ts handle, after a successful execute has settled with no
\* invocation left in flight, loading.value is false and isLoading is false.
C31_MainLoadingAfterSuccess ==
    (last.op = "settle" /\ last.outcome = "done" /\ InFlight = {}) =>
        handle.loading = FALSE /\ ~IsLoading(handle)

\* No reset() was called while an invocation was in flight.
NeverResetInFlight == \A i \in 1 .. Len(invocations) : ~invocations[i].wasReset

\* C32: on a handle whose invocations were never reset while in flight,
\* loading.value is true exactly when at least one invocation is in flight.
C32_LoadingIffInFlight ==
    NeverResetInFlight => (handle.loading = TRUE <=> InFlight # {})

C32_Witness ==
    /\ NeverResetInFlight
    /\ Len(invocations) = 2
    /\ 1 \in invocations[2].with
    /\ Cardinality(InFlight) = 1
    /\ last.op = "settle"
    /\ handle.loading = TRUE


(* ------------------------------ liveness (C33) ------------------------- *)

\* C33: when every invocation settles in the end and execute is called
\* finitely often, the handle reaches a state with loading.value false and
\* stays there, whatever the order of execute, settlements and reset().
C33_EventuallyIdle == <>[](handle.loading = FALSE)

C33_Witness ==
    /\ Len(invocations) = 2
    /\ InFlight = {}
    /\ \E i \in 1 .. 2 : invocations[i].wasReset
    /\ \E i \in 1 .. 2 : invocations[i].fell
    /\ handle.loading = FALSE


(* --------------------------- debouncedState (C34, C35) ----------------- *)

\* C34: set(v) returns v and leaves value as it is, and so does update(fn);
\* an update(fn) that follows a pending call applies fn to that call's value;
\* when the timer fires, value is the value of the last call of the window.
C34_Debounce ==
    /\ last.op = "set" => last.ret = last.arg /\ debounced.value = last.pre.value
    /\ last.op = "update" =>
          /\ debounced.value = last.pre.value
          /\ last.pre.window # <<>> =>
                last.arg = ApplyUpdater(last.fn, last.pre.window[Len(last.pre.window)])
    /\ last.op = "fire" =>
          debounced.value = last.pre.window[Len(last.pre.window)]

\* C35: a timer that was pending when reset(), clear() or setImmediate(w) was
\* called still fires and leaves value at its own value; an update(fn) after
\* one of those calls applies fn to the last value given to the debounced
\* set, not to what they installed.
C35_NotCancelled ==
    /\ (last.op = "fire" /\ last.pre.touched) => debounced.value = last.arg
    /\ (last.op = "update" /\ last.pre.touched /\ last.pre.lastSet # <<>>) =>
          last.arg = ApplyUpdater(last.fn, last.pre.lastSet[1])

(* --------------------------- validatedState (C36) ---------------------- *)

\* C36: after set(v) or update(fn), a candidate the validator rejects (false
\* or a throw) leaves value as it was, with isValid false and validationError
\* not null; a candidate it accepts is the value, with isValid true and
\* validationError null; set returns its argument either way.
C36_Validated ==
    /\ last.op \in {"set", "update"} =>
          IF Validate(validated.validator, last.arg) = "pass"
          THEN /\ validated.value = last.arg
               /\ IsValid(validated)
               /\ validated.validationError = Null
          ELSE /\ validated.value = last.pre.value
               /\ ~IsValid(validated)
               /\ validated.validationError # Null
    /\ last.op = "set" => last.ret = last.arg

(* ----------------------------- collection (C37) ------------------------ *)

\* The index is no position of the array arr.
OutOfRange(index, arr) == index < 0 \/ index >= Len(arr)

\* C37: push(x) leaves the elements with x added at the end, unshift(x) with
\* x added at the front; pop() and shift() on a collection with elements
\* return the last and the first element and leave the others in order, and
\* on an empty or null collection return undefined and leave the value as it
\* is; removeAt(i) and updateAt(i, f) with i out of range leave the elements
\* as they are; length is the number of elements, one more after push and
\* unshift, one less after a pop, shift or removeAt that removed one, and
\* isEmpty is true exactly when length is 0.
C37_Collection ==
    LET before == OrEmpty(last.pre)
        after == OrEmpty(items)
        n == Len(before)
    IN  /\ last.op = "push" => after = Append(before, last.arg)
        /\ last.op = "unshift" => after = <<last.arg>> \o before
        /\ (last.op = "pop" /\ n > 0) =>
              last.ret = before[n] /\ after = SubSeq(before, 1, n - 1)
        /\ (last.op = "shift" /\ n > 0) =>
              last.ret = before[1] /\ after = SubSeq(before, 2, n)
        /\ (last.op \in {"pop", "shift"} /\ n = 0) =>
              last.ret = Undef /\ items = last.pre
        /\ (last.op \in {"removeAt", "updateAt"} /\ OutOfRange(last.index, before)) =>
              after = before
        /\ last.op \in {"push", "unshift"} => Length(items) = n + 1
        /\ (last.op \in {"pop", "shift"} /\ n > 0) => Length(items) = n - 1
        /\ (last.op = "removeAt" /\ ~OutOfRange(last.index, before)) =>
              Length(items) = n - 1
        /\ last.op \in {"push", "unshift", "pop", "shift", "removeAt",
                        "updateAt", "clear"} =>
              (IsEmpty(items) <=> Length(items) = 0)
        /\ last.op = "clear" => Length(items) = 0

\* pop() on the null collection that clear() left, after a call that had
\* made it non-empty: undefined, and still null.
C37_Witness ==
    /\ last.op = "pop" /\ last.pre = NoItems /\ last.ret = Undef
    /\ items = NoItems /\ nops = MaxOps

====
